---- MODULE Spec2Model ----
(***************************************************************************)
(* kv-server: a bounded LRU cache (internal/cache) in front of a durable   *)
(* key-value store (internal/database), driven by the HTTP handlers of     *)
(* internal/server (cache-aside: store first, then cache).                 *)
(*                                                                         *)
(* The specifications share the variables:                                 *)
(*   LRUSpec  one LRUCache partition under any sequence of Get/Put/Delete  *)
(*   ShardSpec a ShardedCache of any total capacity, keys of two shards    *)
(*   LockSpec the cache calls of concurrent goroutines, lock by lock       *)
(*   IoSpec   the handlers of concurrent requests, with the cache's lock   *)
(*   LiveSpec LockSpec and IoSpec runs under fair scheduling               *)
(*   Spec     the handlers run by concurrent requests                      *)
(*   TraceSpec Spec with the arrivals and responses logged in order        *)
(*   SeqSpec  the handlers run one request at a time                       *)
(***************************************************************************)
EXTENDS Integers, Sequences, FiniteSets, TLC

\* ------------------------------------------------------------------ bounds
\* largest capacity a cache is constructed with
MaxCap == 2
\* number of Get/Put/Delete calls of one LRUSpec run
MaxOps == 4
\* number of requests of one Spec / SeqSpec run
MaxReqs == 3
\* number of concurrent request goroutines
NumProcs == 2
\* number of Get/Put/Delete calls of one ShardSpec run
MaxShardOps == 3
\* number of cache calls of one LockSpec run
MaxCalls == 3
\* number of calls or requests of one LiveSpec run
LiveCalls == 2

\* keys of the partition-level runs: all three hash to one shard
LRUKeys == {"a", "ah", "ba"}
\* keys of the ShardedCache runs: "a" and "ah" share a shard, "b" has another
ShardKeys == {"a", "ah", "b"}
\* keys and values of the requests
Keys == {"a", "b"}
Vals == {"v1", "v2"}
Procs == 1..NumProcs

\* a nil *list.Element
Nil == 0
\* no row in kv_store for the key
NoRow == "<norow>"

\* cache      KVServer.cache, the LRUCache (in LRUSpec: the partition)
\* db         the rows of kv_store: key -> value, NoRow where there is none
\* pc         where each request goroutine stands in its handler
\* req        the request it serves: [op, key, value] (in LockSpec: the
\*            cache call it makes)
\* val        handleRead's local "value", read from the store
\* sent       the response written last: the request it answers, what the
\*            store call of that request reported (none, ok, absent, fail)
\*            and the Response
\* nreq       the number of requests started
\* committed  history: the (key, value) pairs the store has ever held
\* hist       history: the calls (LRUSpec, ShardSpec) or requests (SeqSpec)
\*            so far (in LockSpec: the cache called and its GetStats calls)
\* sc         a ShardedCache (in LRUSpec: given the same calls as cache)
\* mu         the locks held: which mutex, by which goroutine, in which mode
\*            (between two cache calls that run as one step, none is held)
VARIABLES cache, db, pc, req, val, sent, nreq, committed, hist, sc, mu

vars == <<cache, db, pc, req, val, sent, nreq, committed, hist, sc, mu>>

serverVars == <<db, pc, req, val, sent, nreq, committed, mu>>

\* ------------------------------------------------- container/list, by use
EmptyMap == [x \in {} |-> x]

Range(f) == {f[x] : x \in DOMAIN f}

\* l.Len()
ListLen(l) == Len(l)

\* l.Back(): the last element, nil for an empty list
Back(l) == IF Len(l) = 0 THEN Nil ELSE l[Len(l)]

\* l.Remove(e)
ListRemove(l, e) == SelectSeq(l, LAMBDA x : x # e)

\* l.MoveToFront(e): no-op when e is not an element of l
MoveToFront(l, e) ==
    IF e \in Range(l) THEN <<e>> \o SelectSeq(l, LAMBDA x : x # e) ELSE l

\* l.PushFront(v) links a new element before the first one
PushFront(l, e) == <<e>> \o l

\* delete(m, key) of a Go map
MapDelete(m, key) == [x \in (DOMAIN m) \ {key} |-> m[x]]

\* m[key] = e of a Go map
MapSet(m, key, e) == [x \in (DOMAIN m) \cup {key} |-> IF x = key THEN e ELSE m[x]]

\* ------------------------------------------------------------- LRUCache
\* An LRUCache is a record: capacity, cache (the map key -> element), lru
\* (the list, front first, of elements), entry (the *entry each live
\* element carries), hits, misses. Elements are identities 1, 2, ...

NewLRUCache(capacity) ==
    [capacity |-> capacity, cache |-> EmptyMap, lru |-> <<>>,
     entry |-> EmptyMap, hits |-> 0, misses |-> 0]

\* the elements still referenced by the list or the map
Live(c) == Range(c.lru) \cup Range(c.cache)

\* the garbage collector: entries of unreferenced elements disappear
Collect(c) == [c EXCEPT !.entry = [e \in Live(c) |-> c.entry[e]]]

\* &list.Element{...}: an identity no live element has
NewElem(c) == CHOOSE e \in 1..(Cardinality(DOMAIN c.entry) + 1) : e \notin DOMAIN c.entry

\* mutant: a hit that does not move the element to the front
GetNoRefresh(c, key) ==
    IF key \in DOMAIN c.cache
    THEN [c |-> [c EXCEPT !.hits = @ + 1],
          value |-> c.entry[c.cache[key]].value, ok |-> TRUE]
    ELSE [c |-> [c EXCEPT !.misses = @ + 1], value |-> "", ok |-> FALSE]

\* mutant: a miss that is not counted
GetMissUncounted(c, key) ==
    IF key \in DOMAIN c.cache
    THEN LET elem == c.cache[key]
         IN  [c |-> [c EXCEPT !.lru = MoveToFront(c.lru, elem), !.hits = @ + 1],
              value |-> c.entry[elem].value, ok |-> TRUE]
    ELSE [c |-> c, value |-> "", ok |-> FALSE]

\* LRUCache.Get: [c |-> the cache after the call, value, ok]
Get(c, key) ==
    IF key \in DOMAIN c.cache
    THEN LET elem == c.cache[key]
         IN  [c |-> [c EXCEPT !.lru = MoveToFront(c.lru, elem), !.hits = @ + 1],
              value |-> c.entry[elem].value, ok |-> TRUE]
    ELSE [c |-> [c EXCEPT !.misses = @ + 1], value |-> "", ok |-> FALSE]

\* mutant: the eviction test written with > (one entry too many)
EvictOffByOne(c) ==
    IF ListLen(c.lru) > c.capacity
    THEN LET oldest == Back(c.lru)
         IN  IF oldest # Nil
             THEN [c EXCEPT !.lru = ListRemove(c.lru, oldest),
                            !.cache = MapDelete(c.cache, c.entry[oldest].key)]
             ELSE c
    ELSE c

\* mutant: the victim taken at the front of the list (the newest entry)
EvictFront(c) ==
    IF ListLen(c.lru) >= c.capacity
    THEN LET oldest == IF Len(c.lru) = 0 THEN Nil ELSE c.lru[1]
         IN  IF oldest # Nil
             THEN [c EXCEPT !.lru = ListRemove(c.lru, oldest),
                            !.cache = MapDelete(c.cache, c.entry[oldest].key)]
             ELSE c
    ELSE c

\* mutant: two entries evicted to make room for one
EvictTwo(c) ==
    IF ListLen(c.lru) >= c.capacity
    THEN LET oldest == Back(c.lru)
             c1 == IF oldest # Nil
                   THEN [c EXCEPT !.lru = ListRemove(c.lru, oldest),
                                  !.cache = MapDelete(c.cache, c.entry[oldest].key)]
                   ELSE c
             next == Back(c1.lru)
         IN  IF next # Nil
             THEN [c1 EXCEPT !.lru = ListRemove(c1.lru, next),
                             !.cache = MapDelete(c1.cache, c1.entry[next].key)]
             ELSE c1
    ELSE c

\* the eviction branch of Put: the cache after "if c.lru.Len() >= c.capacity"
Evict(c) ==
    IF ListLen(c.lru) >= c.capacity
    THEN LET oldest == Back(c.lru)
         IN  IF oldest # Nil
             THEN [c EXCEPT !.lru = ListRemove(c.lru, oldest),
                            !.cache = MapDelete(c.cache, c.entry[oldest].key)]
             ELSE c
    ELSE c

\* mutant: room made before the key is looked up, so an update can evict
PutEvictFirst(c, key, value) ==
    LET c0 == Collect(Evict(c)) IN
    IF key \in DOMAIN c0.cache
    THEN LET elem == c0.cache[key]
         IN  [c0 EXCEPT !.lru = MoveToFront(c0.lru, elem),
                        !.entry[elem].value = value]
    ELSE LET elem == NewElem(c0)
         IN  [c0 EXCEPT !.lru = PushFront(c0.lru, elem),
                        !.entry = MapSet(c0.entry, elem, [key |-> key, value |-> value]),
                        !.cache = MapSet(c0.cache, key, elem)]

\* mutant: a cache without capacity stores nothing
PutNoRoom(c, key, value) ==
    IF c.capacity < 1 THEN c
    ELSE IF key \in DOMAIN c.cache
    THEN LET elem == c.cache[key]
         IN  [c EXCEPT !.lru = MoveToFront(c.lru, elem),
                       !.entry[elem].value = value]
    ELSE LET c1 == Collect(Evict(c))
             elem == NewElem(c1)
         IN  [c1 EXCEPT !.lru = PushFront(c1.lru, elem),
                        !.entry = MapSet(c1.entry, elem, [key |-> key, value |-> value]),
                        !.cache = MapSet(c1.cache, key, elem)]

\* mutant: a full cache rejects a new key instead of evicting
PutRejectFull(c, key, value) ==
    IF key \in DOMAIN c.cache
    THEN LET elem == c.cache[key]
         IN  [c EXCEPT !.lru = MoveToFront(c.lru, elem),
                       !.entry[elem].value = value]
    ELSE IF Len(c.lru) >= c.capacity /\ Len(c.lru) > 0 THEN c
    ELSE LET c1 == Collect(Evict(c))
             elem == NewElem(c1)
         IN  [c1 EXCEPT !.lru = PushFront(c1.lru, elem),
                        !.entry = MapSet(c1.entry, elem, [key |-> key, value |-> value]),
                        !.cache = MapSet(c1.cache, key, elem)]

\* LRUCache.Put
Put(c, key, value) ==
    IF key \in DOMAIN c.cache
    THEN LET elem == c.cache[key]
         IN  [c EXCEPT !.lru = MoveToFront(c.lru, elem),
                       !.entry[elem].value = value]
    ELSE LET c1 == Collect(Evict(c))
             elem == NewElem(c1)
         IN  [c1 EXCEPT !.lru = PushFront(c1.lru, elem),
                        !.entry = MapSet(c1.entry, elem, [key |-> key, value |-> value]),
                        !.cache = MapSet(c1.cache, key, elem)]

\* mutant: the key removed from the map, its element left in the list
DeleteMapOnly(c, key) ==
    IF key \in DOMAIN c.cache
    THEN Collect([c EXCEPT !.cache = MapDelete(c.cache, key)])
    ELSE c

\* mutant: the element at the back of the list removed instead of the key's
DeleteBack(c, key) ==
    IF key \in DOMAIN c.cache
    THEN Collect([c EXCEPT !.lru = ListRemove(c.lru, Back(c.lru)),
                          !.cache = MapDelete(c.cache, key)])
    ELSE c

\* LRUCache.Delete
Delete(c, key) ==
    IF key \in DOMAIN c.cache
    THEN LET elem == c.cache[key]
         IN  Collect([c EXCEPT !.lru = ListRemove(c.lru, elem),
                               !.cache = MapDelete(c.cache, key)])
    ELSE c

\* LRUCache.GetStats
GetStats(c) == <<c.hits, c.misses>>

\* --------------------------------------------------------- ShardedCache
SHARD_COUNT == 32

\* The uint64 of hash is kept to its low 8 bits: xor and multiplication
\* modulo 2^64 act on the low bits alone, and getShard reads the low 5.
LowBits == 2 ^ 8

\* the offset basis 14695981039346656037 = 0xcbf29ce484222325, low 16 bits 0x2325
FNVOffset == 8997 % LowBits

\* the prime 1099511628211 = 2^40 + 435
FNVPrime == 435 % LowBits

\* key[i] for i = 0..len(key)-1: the bytes of the keys used here
KeyBytes(key) ==
    CASE key = "a" -> <<97>>
      [] key = "b" -> <<98>>
      [] key = "ah" -> <<97, 104>>
      [] key = "ba" -> <<98, 97>>
      [] OTHER -> <<>>

RECURSIVE XorBits(_, _, _)
\* a ^ b on the low n bits
XorBits(a, b, n) ==
    IF n = 0 THEN 0
    ELSE (((a % 2) + (b % 2)) % 2) + 2 * XorBits(a \div 2, b \div 2, n - 1)

RECURSIVE AndBits(_, _, _)
\* a & b on the low n bits
AndBits(a, b, n) ==
    IF n = 0 THEN 0
    ELSE ((a % 2) * (b % 2)) + 2 * AndBits(a \div 2, b \div 2, n - 1)

RECURSIVE hashFrom(_, _, _)
\* the loop of hash from byte i on, h being the value so far
hashFrom(h, bytes, i) ==
    IF i > Len(bytes) THEN h
    ELSE hashFrom((XorBits(h, bytes[i], 8) * FNVPrime) % LowBits, bytes, i + 1)

\* hash(key): FNV-1a
hash(key) == hashFrom(FNVOffset, KeyBytes(key), 1)

\* h & (SHARD_COUNT-1) for every key used here, computed once
ShardIndex == [key \in LRUKeys \cup ShardKeys \cup Keys |-> AndBits(hash(key), SHARD_COUNT - 1, 8)]

\* ShardedCache.getShard: the index of the shard that owns the key
getShard(key) == ShardIndex[key]

\* A ShardedCache is a record: shardCap, the capacity NewShardedCache gave
\* every shard, and shards, the lruShards by index. A shard no call has
\* reached yet is left out of shards: it is as NewShardedCache made it.

\* &lruShard{capacity: shardCap, ...} of NewShardedCache
NewShard(shardCap) ==
    [capacity |-> shardCap, cache |-> EmptyMap, lru |-> <<>>,
     entry |-> EmptyMap, hits |-> 0, misses |-> 0]

\* NewShardedCache: every shard gets totalCapacity / SHARD_COUNT, at least 1
NewShardedCache(totalCapacity) ==
    LET shardCap == IF totalCapacity \div SHARD_COUNT < 1 THEN 1
                    ELSE totalCapacity \div SHARD_COUNT
    IN  [shardCap |-> shardCap, shards |-> EmptyMap]

\* sc.shards[i]
ShardAt(s, i) ==
    IF i \in DOMAIN s.shards THEN s.shards[i] ELSE NewShard(s.shardCap)

\* the ShardedCache whose shard i has become shard
WithShard(s, i, shard) == [s EXCEPT !.shards = MapSet(s.shards, i, shard)]

\* ShardedCache.Get: [sc |-> the cache after the call, value, ok]
ShardedGet(s, key) ==
    LET i == getShard(key)
        shard == ShardAt(s, i)
    IN  IF key \in DOMAIN shard.cache
        THEN LET elem == shard.cache[key]
             IN  [sc |-> WithShard(s, i, [shard EXCEPT !.lru = MoveToFront(shard.lru, elem),
                                                       !.hits = @ + 1]),
                  value |-> shard.entry[elem].value, ok |-> TRUE]
        ELSE [sc |-> WithShard(s, i, [shard EXCEPT !.misses = @ + 1]),
              value |-> "", ok |-> FALSE]

\* the eviction branch of ShardedCache.Put, on one shard
ShardEvict(shard) ==
    IF ListLen(shard.lru) >= shard.capacity
    THEN LET oldest == Back(shard.lru)
         IN  IF oldest # Nil
             THEN [shard EXCEPT !.lru = ListRemove(shard.lru, oldest),
                                !.cache = MapDelete(shard.cache, shard.entry[oldest].key)]
             ELSE shard
    ELSE shard

\* mutant: a new entry linked into shard 0 whatever shard owns the key
ShardedPutAstray(s, key, value) ==
    LET i == getShard(key)
        shard == ShardAt(s, i)
    IN  IF key \in DOMAIN shard.cache
        THEN LET elem == shard.cache[key]
             IN  WithShard(s, i, [shard EXCEPT !.lru = MoveToFront(shard.lru, elem),
                                               !.entry[elem].value = value])
        ELSE LET s1 == Collect(ShardEvict(ShardAt(s, 0)))
                 elem == NewElem(s1)
             IN  WithShard(s, 0,
                    [s1 EXCEPT !.lru = PushFront(s1.lru, elem),
                               !.entry = MapSet(s1.entry, elem, [key |-> key, value |-> value]),
                               !.cache = MapSet(s1.cache, key, elem)])

\* ShardedCache.Put
ShardedPut(s, key, value) ==
    LET i == getShard(key)
        shard == ShardAt(s, i)
    IN  IF key \in DOMAIN shard.cache
        THEN LET elem == shard.cache[key]
             IN  WithShard(s, i, [shard EXCEPT !.lru = MoveToFront(shard.lru, elem),
                                               !.entry[elem].value = value])
        ELSE LET s1 == Collect(ShardEvict(shard))
                 elem == NewElem(s1)
             IN  WithShard(s, i,
                    [s1 EXCEPT !.lru = PushFront(s1.lru, elem),
                               !.entry = MapSet(s1.entry, elem, [key |-> key, value |-> value]),
                               !.cache = MapSet(s1.cache, key, elem)])

\* ShardedCache.Delete
ShardedDelete(s, key) ==
    LET i == getShard(key)
        shard == ShardAt(s, i)
    IN  IF key \in DOMAIN shard.cache
        THEN LET elem == shard.cache[key]
             IN  WithShard(s, i, Collect([shard EXCEPT !.lru = ListRemove(shard.lru, elem),
                                                       !.cache = MapDelete(shard.cache, key)]))
        ELSE s

RECURSIVE StatsOver(_, _)
\* totalHits and totalMisses added up over the shards of the set idx
StatsOver(s, idx) ==
    IF idx = {} THEN <<0, 0>>
    ELSE LET i == CHOOSE x \in idx : TRUE
             rest == StatsOver(s, idx \ {i})
         IN  <<s.shards[i].hits + rest[1], s.shards[i].misses + rest[2]>>

\* ShardedCache.GetStats, its loop run with no call in between: the shards
\* some call has reached, and the others, which are all alike
ShardedGetStats(s) ==
    LET reached == StatsOver(s, DOMAIN s.shards)
        others == SHARD_COUNT - Cardinality(DOMAIN s.shards)
    IN  <<reached[1] + others * NewShard(s.shardCap).hits,
          reached[2] + others * NewShard(s.shardCap).misses>>

\* ---- what a cache holds, for the properties
\* the keys of the list, front (most recently used) first
Order(c) == [i \in 1..Len(c.lru) |-> c.entry[c.lru[i]].key]
\* the value the map gives for a key
Cached(c, key) == c.entry[c.cache[key]].value
Has(c, key) == key \in DOMAIN c.cache
\* the entries and the recency order, without the counters
Contents(c) == [cache |-> c.cache, lru |-> c.lru, entry |-> c.entry]

\* ------------------------------------------------------- one partition
NoReq == [op |-> "none", key |-> "", value |-> ""]
NoResp == [status |-> 0, success |-> FALSE, value |-> "", error |-> ""]
NoneSent == [req |-> NoReq, store |-> "none", resp |-> NoResp]

ServerIdle ==
    /\ db = [k \in Keys |-> NoRow]
    /\ pc = [p \in Procs |-> "idle"]
    /\ req = [p \in Procs |-> NoReq]
    /\ val = [p \in Procs |-> ""]
    /\ sent = NoneSent
    /\ nreq = 0
    /\ committed = {}
    /\ mu = {}

\* an LRUCache of some capacity, and a ShardedCache whose shards get the
\* same capacity (1 for capacity 0)
LRUInit ==
    /\ \E capacity \in 0..MaxCap :
          /\ cache = NewLRUCache(capacity)
          /\ sc = NewShardedCache(capacity * SHARD_COUNT)
    /\ hist = <<>>
    /\ ServerIdle

\* each call is made on the LRUCache and on the ShardedCache, and logged
\* with what each returned
LRUGet(key) ==
    /\ Len(hist) < MaxOps
    /\ LET r == Get(cache, key)
           sr == ShardedGet(sc, key)
       IN  /\ cache' = r.c
           /\ sc' = sr.sc
           /\ hist' = Append(hist, [op |-> "Get", key |-> key, value |-> r.value,
                                     ok |-> r.ok, svalue |-> sr.value, sok |-> sr.ok])
    /\ UNCHANGED serverVars

LRUPut(key, value) ==
    /\ Len(hist) < MaxOps
    /\ cache' = Put(cache, key, value)
    /\ sc' = ShardedPut(sc, key, value)
    /\ hist' = Append(hist, [op |-> "Put", key |-> key, value |-> value,
                              ok |-> TRUE, svalue |-> value, sok |-> TRUE])
    /\ UNCHANGED serverVars

LRUDelete(key) ==
    /\ Len(hist) < MaxOps
    /\ cache' = Delete(cache, key)
    /\ sc' = ShardedDelete(sc, key)
    /\ hist' = Append(hist, [op |-> "Delete", key |-> key, value |-> "",
                              ok |-> TRUE, svalue |-> "", sok |-> TRUE])
    /\ UNCHANGED serverVars

LRUNext ==
    \/ \E key \in LRUKeys : LRUGet(key)
    \/ \E key \in LRUKeys, value \in Vals : LRUPut(key, value)
    \/ \E key \in LRUKeys : LRUDelete(key)

LRUSpec == LRUInit /\ [][LRUNext]_vars

\* ------------------------------------------------------- one ShardedCache
\* the total capacities a ShardedCache is constructed with
TotalCaps == 0..(MaxCap * SHARD_COUNT + 1)

\* a ShardedCache of some total capacity (and an LRUCache of that capacity,
\* which gets no call here)
ShardInit ==
    /\ \E totalCapacity \in TotalCaps :
          /\ cache = NewLRUCache(totalCapacity)
          /\ sc = NewShardedCache(totalCapacity)
    /\ hist = <<>>
    /\ ServerIdle

ShardGet(key) ==
    /\ Len(hist) < MaxShardOps
    /\ LET sr == ShardedGet(sc, key)
       IN  /\ sc' = sr.sc
           /\ hist' = Append(hist, [op |-> "Get", key |-> key, value |-> sr.value,
                                     ok |-> sr.ok, svalue |-> sr.value, sok |-> sr.ok])
    /\ UNCHANGED <<cache, serverVars>>

ShardPut(key, value) ==
    /\ Len(hist) < MaxShardOps
    /\ sc' = ShardedPut(sc, key, value)
    /\ hist' = Append(hist, [op |-> "Put", key |-> key, value |-> value,
                              ok |-> TRUE, svalue |-> value, sok |-> TRUE])
    /\ UNCHANGED <<cache, serverVars>>

ShardDelete(key) ==
    /\ Len(hist) < MaxShardOps
    /\ sc' = ShardedDelete(sc, key)
    /\ hist' = Append(hist, [op |-> "Delete", key |-> key, value |-> "",
                              ok |-> TRUE, svalue |-> "", sok |-> TRUE])
    /\ UNCHANGED <<cache, serverVars>>

ShardNext ==
    \/ \E key \in ShardKeys : ShardGet(key)
    \/ \E key \in ShardKeys : ShardPut(key, "v1")
    \/ \E key \in ShardKeys : ShardDelete(key)

ShardSpec == ShardInit /\ [][ShardNext]_vars

\* ------------------------------------------- the calls, lock by lock
\* Goroutines call Get, Put, Delete and GetStats on the LRUCache ("lru") and
\* on the ShardedCache ("sc"). A call is [op, key, value, on, i, at]: i is
\* the shard GetStats of the ShardedCache has come to, at the partition as
\* the call found it when it got the lock, total what GetStats has added
\* up so far.

\* keys of the LockSpec runs: both of one shard
LockKeys == {"a", "ah"}

\* LRUCache.mu, and lruShard.mu of shard i
LruMu == <<"lru", 0>>
ShardMu(i) == <<"shard", i>>

\* the mutex the call r takes
MuOf(r) ==
    IF r.on = "lru" THEN LruMu
    ELSE IF r.op = "GetStats" THEN ShardMu(r.i)
    ELSE ShardMu(getShard(r.key))

\* the partition the call r works on
PartOf(r) == IF r.on = "lru" THEN cache ELSE ShardAt(sc, MuOf(r)[2])

\* the goroutines that hold mutex m in one of the modes
Holders(m, modes) == {h \in mu : h.lock = m /\ h.mode \in modes}

\* the statements of a critical section, in two halves: the list first,
\* then the map, the entry and the counters
GetFirst(c, key) ==
    IF key \in DOMAIN c.cache
    THEN [c EXCEPT !.lru = MoveToFront(c.lru, c.cache[key])]
    ELSE c

GetRest(c, key) ==
    IF key \in DOMAIN c.cache
    THEN [c EXCEPT !.hits = @ + 1]
    ELSE [c EXCEPT !.misses = @ + 1]

PutFirst(c, key, value) ==
    IF key \in DOMAIN c.cache
    THEN [c EXCEPT !.lru = MoveToFront(c.lru, c.cache[key])]
    ELSE Collect(Evict(c))

PutRest(c, key, value) ==
    IF key \in DOMAIN c.cache
    THEN [c EXCEPT !.entry[c.cache[key]].value = value]
    ELSE LET elem == NewElem(c)
         IN  [c EXCEPT !.lru = PushFront(c.lru, elem),
                       !.entry = MapSet(c.entry, elem, [key |-> key, value |-> value]),
                       !.cache = MapSet(c.cache, key, elem)]

DeleteFirst(c, key) ==
    IF key \in DOMAIN c.cache
    THEN [c EXCEPT !.lru = ListRemove(c.lru, c.cache[key])]
    ELSE c

DeleteRest(c, key) ==
    IF key \in DOMAIN c.cache
    THEN Collect([c EXCEPT !.cache = MapDelete(c.cache, key)])
    ELSE c

\* the first and the second half of the call r on the partition c
FirstHalf(r, c) ==
    CASE r.op = "Get" -> GetFirst(c, r.key)
      [] r.op = "Put" -> PutFirst(c, r.key, r.value)
      [] r.op = "Delete" -> DeleteFirst(c, r.key)

SecondHalf(r, c) ==
    CASE r.op = "Get" -> GetRest(c, r.key)
      [] r.op = "Put" -> PutRest(c, r.key, r.value)
      [] r.op = "Delete" -> DeleteRest(c, r.key)

\* the partition of the call r becomes part
SetPart(r, part) ==
    IF r.on = "lru"
    THEN cache' = part /\ sc' = sc
    ELSE sc' = WithShard(sc, MuOf(r)[2], part) /\ cache' = cache

\* goroutine p (the first idle one) starts a call on the cache of this run
Invoke(p, on, op, key, value) ==
    /\ on = hist[1].on
    /\ pc[p] = "idle"
    /\ \A q \in Procs : q < p => pc[q] # "idle"
    /\ nreq < MaxCalls
    /\ nreq' = nreq + 1
    /\ req' = [req EXCEPT ![p] = [op |-> op, key |-> key, value |-> value,
                                  on |-> on, i |-> 0, at |-> NewShard(0),
                                  total |-> <<0, 0>>]]
    /\ pc' = [pc EXCEPT ![p] = IF op = "GetStats" THEN "stats_lock" ELSE "lock"]
    /\ UNCHANGED <<cache, sc, mu, val, db, sent, committed>>

\* a Get, Put or Delete starts
InvokeCall(p, on, op, key, value) ==
    /\ Invoke(p, on, op, key, value)
    /\ hist' = hist

\* a GetStats starts and is logged; the ShardedCache of a run is asked for
\* its stats once
InvokeStats(p, on) ==
    /\ on = "sc" => Len(hist) = 1
    /\ Invoke(p, on, "GetStats", "", "")
    /\ hist' = Append(hist, [op |-> "GetStats", on |-> on])

\* mutant: a Lock that does not wait for the mutex to be free
LockNoWait(p) ==
    /\ pc[p] = "lock"
    /\ mu' = mu \cup {[lock |-> MuOf(req[p]), by |-> p, mode |-> "w"]}
    /\ req' = [req EXCEPT ![p].at = PartOf(req[p])]
    /\ pc' = [pc EXCEPT ![p] = "cs1"]
    /\ UNCHANGED <<cache, sc, val, nreq, db, sent, committed, hist>>

\* c.mu.Lock() / shard.mu.Lock() of Get, Put, Delete: waits until nobody
\* holds the mutex
Lock(p) ==
    /\ pc[p] = "lock"
    /\ Holders(MuOf(req[p]), {"w", "r"}) = {}
    /\ mu' = mu \cup {[lock |-> MuOf(req[p]), by |-> p, mode |-> "w"]}
    /\ req' = [req EXCEPT ![p].at = PartOf(req[p])]
    /\ pc' = [pc EXCEPT ![p] = "cs1"]
    /\ UNCHANGED <<cache, sc, val, nreq, db, sent, committed, hist>>

\* the critical section of Get, Put, Delete: its first half
First(p) ==
    /\ pc[p] = "cs1"
    /\ SetPart(req[p], FirstHalf(req[p], PartOf(req[p])))
    /\ pc' = [pc EXCEPT ![p] = "cs2"]
    /\ UNCHANGED <<req, val, mu, nreq, db, sent, committed, hist>>

\* its second half, up to the return statement
Rest(p) ==
    /\ pc[p] = "cs2"
    /\ SetPart(req[p], SecondHalf(req[p], PartOf(req[p])))
    /\ pc' = [pc EXCEPT ![p] = "unlock"]
    /\ UNCHANGED <<req, val, mu, nreq, db, sent, committed, hist>>

\* the deferred Unlock(), and the call returns
Unlock(p) ==
    /\ pc[p] = "unlock"
    /\ mu' = mu \ {h \in mu : h.by = p}
    /\ pc' = [pc EXCEPT ![p] = "idle"]
    /\ req' = [req EXCEPT ![p] = NoReq]
    /\ UNCHANGED <<cache, sc, val, nreq, db, sent, committed, hist>>

\* GetStats: c.mu.RLock() of the LRUCache (waits for no writer), or
\* shard.mu.Lock() of the shard the loop has come to
StatsLock(p) ==
    /\ pc[p] = "stats_lock"
    /\ IF req[p].on = "lru"
       THEN /\ Holders(LruMu, {"w"}) = {}
            /\ mu' = mu \cup {[lock |-> LruMu, by |-> p, mode |-> "r"]}
       ELSE /\ Holders(MuOf(req[p]), {"w", "r"}) = {}
            /\ mu' = mu \cup {[lock |-> MuOf(req[p]), by |-> p, mode |-> "w"]}
    /\ pc' = [pc EXCEPT ![p] = "stats_read"]
    /\ UNCHANGED <<cache, sc, req, val, nreq, db, sent, committed, hist>>

\* GetStats: the counters of the partition read and added up
StatsRead(p) ==
    /\ pc[p] = "stats_read"
    /\ req' = [req EXCEPT ![p].total = <<@[1] + PartOf(req[p]).hits,
                                         @[2] + PartOf(req[p]).misses>>]
    /\ pc' = [pc EXCEPT ![p] = "stats_unlock"]
    /\ UNCHANGED <<cache, sc, val, mu, nreq, db, sent, committed, hist>>

\* mutant: GetStats goes on to the next shard with the lock still held
StatsUnlockKeep(p) ==
    /\ pc[p] = "stats_unlock"
    /\ mu' = IF req[p].on = "sc" /\ req[p].i + 1 < SHARD_COUNT
             THEN mu ELSE mu \ {h \in mu : h.by = p}
    /\ IF req[p].on = "sc" /\ req[p].i + 1 < SHARD_COUNT
       THEN /\ req' = [req EXCEPT ![p].i = @ + 1]
            /\ pc' = [pc EXCEPT ![p] = "stats_lock"]
       ELSE /\ req' = [req EXCEPT ![p] = NoReq]
            /\ pc' = [pc EXCEPT ![p] = "idle"]
    /\ UNCHANGED <<cache, sc, val, nreq, db, sent, committed, hist>>

\* GetStats: the unlock; the loop over the shards goes on, or the call returns
StatsUnlock(p) ==
    /\ pc[p] = "stats_unlock"
    /\ mu' = mu \ {h \in mu : h.by = p}
    /\ IF req[p].on = "sc" /\ req[p].i + 1 < SHARD_COUNT
       THEN /\ req' = [req EXCEPT ![p].i = @ + 1]
            /\ pc' = [pc EXCEPT ![p] = "stats_lock"]
       ELSE /\ req' = [req EXCEPT ![p] = NoReq]
            /\ pc' = [pc EXCEPT ![p] = "idle"]
    /\ UNCHANGED <<cache, sc, val, nreq, db, sent, committed, hist>>

\* the two caches as constructed, with partitions of capacity 1 (every Put
\* of a second key evicts); the goroutines of a run call one of them, the
\* one the log names
LockInit ==
    /\ cache = NewLRUCache(1)
    /\ sc = NewShardedCache(SHARD_COUNT)
    /\ \E on \in {"lru", "sc"} : hist = <<[op |-> "New", on |-> on]>>
    /\ ServerIdle

LockNext ==
    \/ \E p \in Procs, on \in {"lru", "sc"}, key \in LockKeys : InvokeCall(p, on, "Get", key, "")
    \/ \E p \in Procs, on \in {"lru", "sc"}, key \in LockKeys : InvokeCall(p, on, "Put", key, "v1")
    \/ \E p \in Procs, on \in {"lru", "sc"}, key \in LockKeys : InvokeCall(p, on, "Delete", key, "")
    \/ \E p \in Procs, on \in {"lru", "sc"} : InvokeStats(p, on)
    \/ \E p \in Procs : Lock(p)
    \/ \E p \in Procs : First(p)
    \/ \E p \in Procs : Rest(p)
    \/ \E p \in Procs : Unlock(p)
    \/ \E p \in Procs : StatsLock(p)
    \/ \E p \in Procs : StatsRead(p)
    \/ \E p \in Procs : StatsUnlock(p)

LockSpec == LockInit /\ [][LockNext]_vars

\* ------------------------------------------------------- the store
\* PostgresDB.Create: INSERT ... ON CONFLICT DO UPDATE. fail: Exec returns
\* an error and the table is as it was.
DbCreate(d, key, value, fail) ==
    IF fail THEN [db |-> d, err |-> "store failure"]
    ELSE [db |-> [d EXCEPT ![key] = value], err |-> "nil"]

\* PostgresDB.Read: sql.ErrNoRows becomes "key not found"
DbRead(d, key, fail) ==
    IF fail THEN [value |-> "", err |-> "store failure"]
    ELSE IF d[key] = NoRow THEN [value |-> "", err |-> "key not found"]
    ELSE [value |-> d[key], err |-> "nil"]

\* PostgresDB.Delete: no row affected becomes "key not found"
DbDelete(d, key, fail) ==
    IF fail THEN [db |-> d, err |-> "store failure"]
    ELSE IF d[key] = NoRow THEN [db |-> d, err |-> "key not found"]
    ELSE [db |-> [d EXCEPT ![key] = NoRow], err |-> "nil"]

\* what the store reported, from the error of the call
Reported(err) ==
    CASE err = "nil" -> "ok"
      [] err = "key not found" -> "absent"
      [] OTHER -> "fail"

\* ------------------------------------------------------- the handlers
sendSuccess(value, status) ==
    [status |-> status, success |-> TRUE, value |-> value, error |-> ""]

sendError(errMsg, status) ==
    [status |-> status, success |-> FALSE, value |-> "", error |-> errMsg]

\* goroutine p writes its response; store: what its store call reported
Answer(p, store, r) == [req |-> req[p], store |-> store, resp |-> r]

\* A request with a well-formed body and a non-empty key arrives: ServeHTTP
\* dispatches it on its method. It is served by the first idle goroutine.
Start(p, op, key, value) ==
    /\ pc[p] = "idle"
    /\ \A q \in Procs : q < p => pc[q] # "idle"
    /\ nreq < MaxReqs
    /\ nreq' = nreq + 1
    /\ req' = [req EXCEPT ![p] = [op |-> op, key |-> key, value |-> value]]
    /\ pc' = [pc EXCEPT ![p] = CASE op = "create" -> "create_db"
                                  [] op = "read" -> "read_get"
                                  [] op = "delete" -> "delete_db"]
    /\ UNCHANGED <<cache, db, val, sent, committed>>

\* the handler of goroutine p returns
Return(p) ==
    /\ pc' = [pc EXCEPT ![p] = "idle"]
    /\ req' = [req EXCEPT ![p] = NoReq]
    /\ val' = [val EXCEPT ![p] = ""]

\* mutant: the cache written before the store (cache-first ordering)
CreateDbCacheFirst(p, fail) ==
    /\ pc[p] = "create_db"
    /\ cache' = Put(cache, req[p].key, req[p].value)
    /\ LET r == DbCreate(db, req[p].key, req[p].value, fail)
       IN  /\ db' = r.db
           /\ IF r.err # "nil"
              THEN /\ sent' = Answer(p, Reported(r.err), sendError("database error", 500))
                   /\ Return(p)
                   /\ committed' = committed
              ELSE /\ pc' = [pc EXCEPT ![p] = "create_put"]
                   /\ committed' = committed \cup {<<req[p].key, req[p].value>>}
                   /\ UNCHANGED <<sent, req, val>>
    /\ UNCHANGED nreq

\* handleCreate: s.db.Create(req.Key, req.Value)
CreateDb(p, fail) ==
    /\ pc[p] = "create_db"
    /\ LET r == DbCreate(db, req[p].key, req[p].value, fail)
       IN  /\ db' = r.db
           /\ IF r.err # "nil"
              THEN /\ sent' = Answer(p, Reported(r.err), sendError("database error", 500))
                   /\ Return(p)
                   /\ committed' = committed
              ELSE /\ pc' = [pc EXCEPT ![p] = "create_put"]
                   /\ committed' = committed \cup {<<req[p].key, req[p].value>>}
                   /\ UNCHANGED <<sent, req, val>>
    /\ UNCHANGED <<cache, nreq>>

\* handleCreate: s.cache.Put(req.Key, req.Value), then 201
CreatePut(p) ==
    /\ pc[p] = "create_put"
    /\ cache' = Put(cache, req[p].key, req[p].value)
    /\ sent' = Answer(p, "ok", sendSuccess("", 201))
    /\ Return(p)
    /\ UNCHANGED <<db, nreq, committed>>

\* mutant: a hit that is not served from the cache but sent on to the store
ReadGetNoServe(p) ==
    /\ pc[p] = "read_get"
    /\ LET r == Get(cache, req[p].key)
       IN  /\ cache' = r.c
           /\ pc' = [pc EXCEPT ![p] = "read_db"]
           /\ UNCHANGED <<sent, req, val>>
    /\ UNCHANGED <<db, nreq, committed>>

\* handleRead: s.cache.Get(key)
ReadGet(p) ==
    /\ pc[p] = "read_get"
    /\ LET r == Get(cache, req[p].key)
       IN  /\ cache' = r.c
           /\ IF r.ok
              THEN /\ sent' = Answer(p, "none", sendSuccess(r.value, 200))
                   /\ Return(p)
              ELSE /\ pc' = [pc EXCEPT ![p] = "read_db"]
                   /\ UNCHANGED <<sent, req, val>>
    /\ UNCHANGED <<db, nreq, committed>>

\* mutant: the error branch misses its return and caches the empty value
ReadDbCacheOnError(p, fail) ==
    /\ pc[p] = "read_db"
    /\ LET r == DbRead(db, req[p].key, fail)
       IN  IF r.err # "nil"
           THEN /\ sent' = Answer(p, Reported(r.err), sendError("key not found", 404))
                /\ cache' = Put(cache, req[p].key, r.value)
                /\ Return(p)
           ELSE /\ pc' = [pc EXCEPT ![p] = "read_put"]
                /\ val' = [val EXCEPT ![p] = r.value]
                /\ UNCHANGED <<sent, req, cache>>
    /\ UNCHANGED <<db, nreq, committed>>

\* handleRead: s.db.Read(key); any error is answered "key not found"
ReadDb(p, fail) ==
    /\ pc[p] = "read_db"
    /\ LET r == DbRead(db, req[p].key, fail)
       IN  IF r.err # "nil"
           THEN /\ sent' = Answer(p, Reported(r.err), sendError("key not found", 404))
                /\ Return(p)
           ELSE /\ pc' = [pc EXCEPT ![p] = "read_put"]
                /\ val' = [val EXCEPT ![p] = r.value]
                /\ UNCHANGED <<sent, req>>
    /\ UNCHANGED <<cache, db, nreq, committed>>

\* mutant: the value read from the store is returned but not cached
ReadPutSkip(p) ==
    /\ pc[p] = "read_put"
    /\ sent' = Answer(p, "ok", sendSuccess(val[p], 200))
    /\ Return(p)
    /\ UNCHANGED <<cache, db, nreq, committed>>

\* handleRead: s.cache.Put(key, value), then 200
ReadPut(p) ==
    /\ pc[p] = "read_put"
    /\ cache' = Put(cache, req[p].key, val[p])
    /\ sent' = Answer(p, "ok", sendSuccess(val[p], 200))
    /\ Return(p)
    /\ UNCHANGED <<db, nreq, committed>>

\* mutant: the cache invalidated whatever the store answered
DeleteDbAlwaysInvalidate(p, fail) ==
    /\ pc[p] = "delete_db"
    /\ LET r == DbDelete(db, req[p].key, fail)
       IN  /\ db' = r.db
           /\ IF r.err # "nil"
              THEN /\ sent' = Answer(p, Reported(r.err), sendError("key not found", 404))
                   /\ cache' = Delete(cache, req[p].key)
                   /\ Return(p)
              ELSE /\ pc' = [pc EXCEPT ![p] = "delete_cache"]
                   /\ UNCHANGED <<sent, req, val, cache>>
    /\ UNCHANGED <<nreq, committed>>

\* handleDelete: s.db.Delete(key); any error is answered "key not found"
DeleteDb(p, fail) ==
    /\ pc[p] = "delete_db"
    /\ LET r == DbDelete(db, req[p].key, fail)
       IN  /\ db' = r.db
           /\ IF r.err # "nil"
              THEN /\ sent' = Answer(p, Reported(r.err), sendError("key not found", 404))
                   /\ Return(p)
              ELSE /\ pc' = [pc EXCEPT ![p] = "delete_cache"]
                   /\ UNCHANGED <<sent, req, val>>
    /\ UNCHANGED <<cache, nreq, committed>>

\* mutant: the store row deleted, the cached copy left in place
DeleteCacheSkip(p) ==
    /\ pc[p] = "delete_cache"
    /\ sent' = Answer(p, "ok", sendSuccess("", 200))
    /\ Return(p)
    /\ UNCHANGED <<cache, db, nreq, committed>>

\* handleDelete: s.cache.Delete(key), then 200
DeleteCache(p) ==
    /\ pc[p] = "delete_cache"
    /\ cache' = Delete(cache, req[p].key)
    /\ sent' = Answer(p, "ok", sendSuccess("", 200))
    /\ Return(p)
    /\ UNCHANGED <<db, nreq, committed>>

\* NewKVServer(cacheSize, db): an empty cache in front of a store that
\* holds the rows earlier runs left in it
NewKVServer ==
    /\ \E cacheSize \in {1, MaxCap} : cache = NewLRUCache(cacheSize)
    /\ db \in [Keys -> {"v1", NoRow}]
    /\ committed = {<<k, db[k]>> : k \in {x \in Keys : db[x] # NoRow}}
    /\ pc = [p \in Procs |-> "idle"]
    /\ req = [p \in Procs |-> NoReq]
    /\ val = [p \in Procs |-> ""]
    /\ sent = NoneSent
    /\ nreq = 0
    /\ sc = NewShardedCache(SHARD_COUNT)
    /\ mu = {}

\* ---- concurrent requests
Init == NewKVServer /\ hist = <<>>

Next ==
    \/ \E p \in Procs, key \in Keys, value \in Vals :
          Start(p, "create", key, value) /\ UNCHANGED <<hist, sc, mu>>
    \/ \E p \in Procs, key \in Keys : Start(p, "read", key, "") /\ UNCHANGED <<hist, sc, mu>>
    \/ \E p \in Procs, key \in Keys : Start(p, "delete", key, "") /\ UNCHANGED <<hist, sc, mu>>
    \/ \E p \in Procs, fail \in BOOLEAN : CreateDb(p, fail) /\ UNCHANGED <<hist, sc, mu>>
    \/ \E p \in Procs : CreatePut(p) /\ UNCHANGED <<hist, sc, mu>>
    \/ \E p \in Procs : ReadGet(p) /\ UNCHANGED <<hist, sc, mu>>
    \/ \E p \in Procs, fail \in BOOLEAN : ReadDb(p, fail) /\ UNCHANGED <<hist, sc, mu>>
    \/ \E p \in Procs : ReadPut(p) /\ UNCHANGED <<hist, sc, mu>>
    \/ \E p \in Procs, fail \in BOOLEAN : DeleteDb(p, fail) /\ UNCHANGED <<hist, sc, mu>>
    \/ \E p \in Procs : DeleteCache(p) /\ UNCHANGED <<hist, sc, mu>>

Spec == Init /\ [][Next]_vars

\* ---- one request at a time, each logged with the state it found and left
\* the entry logged when a request starts: it has changed nothing yet
Begin(r) ==
    [req |-> r, done |-> FALSE, cache0 |-> cache, db0 |-> db,
     cache1 |-> cache, db1 |-> db, store |-> "none", resp |-> NoResp]

\* the entry of the request that ends in this step
End(h) ==
    [h EXCEPT !.done = TRUE, !.cache1 = cache', !.db1 = db',
              !.store = sent'.store, !.resp = sent'.resp]

\* a request starts only when no other is in flight, and is logged
Alone(p) ==
    /\ \A q \in Procs : pc[q] = "idle"
    /\ hist' = Append(hist, Begin(req'[p]))
    /\ UNCHANGED <<sc, mu>>

\* a step of the request in flight; its entry is completed when it returns
Logged(p) ==
    /\ hist' = IF pc'[p] = "idle"
               THEN [hist EXCEPT ![Len(hist)] = End(hist[Len(hist)])]
               ELSE hist
    /\ UNCHANGED <<sc, mu>>

SeqInit == NewKVServer /\ hist = <<>>

SeqNext ==
    \/ \E p \in Procs, key \in Keys, value \in Vals :
          Start(p, "create", key, value) /\ Alone(p)
    \/ \E p \in Procs, key \in Keys : Start(p, "read", key, "") /\ Alone(p)
    \/ \E p \in Procs, key \in Keys : Start(p, "delete", key, "") /\ Alone(p)
    \/ \E p \in Procs, fail \in BOOLEAN : CreateDb(p, fail) /\ Logged(p)
    \/ \E p \in Procs : CreatePut(p) /\ Logged(p)
    \/ \E p \in Procs : ReadGet(p) /\ Logged(p)
    \/ \E p \in Procs, fail \in BOOLEAN : ReadDb(p, fail) /\ Logged(p)
    \/ \E p \in Procs : ReadPut(p) /\ Logged(p)
    \/ \E p \in Procs, fail \in BOOLEAN : DeleteDb(p, fail) /\ Logged(p)
    \/ \E p \in Procs : DeleteCache(p) /\ Logged(p)

SeqSpec == SeqInit /\ [][SeqNext]_vars

\* ---- concurrent requests, their arrivals and responses logged in order
\* the request of goroutine p arrives
Arrives(p) ==
    /\ hist' = Append(hist, [ev |-> "start", by |-> p, req |-> req'[p], ok |-> FALSE])
    /\ UNCHANGED <<sc, mu>>

\* a step of the request of goroutine p; its response is logged when sent
Responds(p) ==
    /\ hist' = IF pc'[p] = "idle"
               THEN Append(hist, [ev |-> "end", by |-> p, req |-> req[p],
                                  ok |-> sent'.resp.success])
               ELSE hist
    /\ UNCHANGED <<sc, mu>>

TraceInit == NewKVServer /\ hist = <<>>

TraceNext ==
    \/ \E p \in Procs, key \in Keys, value \in Vals :
          Start(p, "create", key, value) /\ Arrives(p)
    \/ \E p \in Procs, key \in Keys : Start(p, "read", key, "") /\ Arrives(p)
    \/ \E p \in Procs, key \in Keys : Start(p, "delete", key, "") /\ Arrives(p)
    \/ \E p \in Procs, fail \in BOOLEAN : CreateDb(p, fail) /\ Responds(p)
    \/ \E p \in Procs : CreatePut(p) /\ Responds(p)
    \/ \E p \in Procs : ReadGet(p) /\ Responds(p)
    \/ \E p \in Procs, fail \in BOOLEAN : ReadDb(p, fail) /\ Responds(p)
    \/ \E p \in Procs : ReadPut(p) /\ Responds(p)
    \/ \E p \in Procs, fail \in BOOLEAN : DeleteDb(p, fail) /\ Responds(p)
    \/ \E p \in Procs : DeleteCache(p) /\ Responds(p)

TraceSpec == TraceInit /\ [][TraceNext]_vars

\* ---- concurrent requests, each cache call taking and releasing the lock
\* goroutine p holds a mutex
HoldsMu(p) == \E h \in mu : h.by = p

\* where a handler stands when it is about to make, or is inside, a cache
\* call, and when its store call is outstanding
CacheCallPcs == {"create_put", "read_get", "read_put", "delete_cache"}
StoreCallPcs == {"create_db", "read_db", "delete_db"}

\* c.mu.Lock() at the top of the cache call goroutine p makes
Acquire(p) ==
    /\ pc[p] \in CacheCallPcs
    /\ ~HoldsMu(p)
    /\ Holders(LruMu, {"w", "r"}) = {}
    /\ mu' = mu \cup {[lock |-> LruMu, by |-> p, mode |-> "w"]}
    /\ UNCHANGED <<cache, db, pc, req, val, sent, nreq, committed, hist, sc>>

\* mutant: the cache call returns with the mutex still locked
ReleaseNever(p) == HoldsMu(p) /\ mu' = mu

\* the deferred c.mu.Unlock(), run as the cache call of goroutine p returns
Release(p) == HoldsMu(p) /\ mu' = mu \ {h \in mu : h.by = p}

\* a server with a cache of capacity 1 in front of an empty store
IoInit ==
    /\ NewKVServer
    /\ cache = NewLRUCache(1)
    /\ db = [k \in Keys |-> NoRow]
    /\ hist = <<[op |-> "New", on |-> "server"]>>

\* the store calls are made with no step of the cache; the cache calls run
\* between Lock and Unlock
IoNext ==
    \/ \E p \in Procs, key \in Keys :
          /\ hist[1].on = "server"
          /\ Start(p, "create", key, "v1") /\ UNCHANGED <<hist, sc, mu>>
    \/ \E p \in Procs, key \in Keys :
          /\ hist[1].on = "server"
          /\ Start(p, "read", key, "") /\ UNCHANGED <<hist, sc, mu>>
    \/ \E p \in Procs, key \in Keys :
          /\ hist[1].on = "server"
          /\ Start(p, "delete", key, "") /\ UNCHANGED <<hist, sc, mu>>
    \/ \E p \in Procs, fail \in BOOLEAN : CreateDb(p, fail) /\ UNCHANGED <<hist, sc, mu>>
    \/ \E p \in Procs, fail \in BOOLEAN : ReadDb(p, fail) /\ UNCHANGED <<hist, sc, mu>>
    \/ \E p \in Procs, fail \in BOOLEAN : DeleteDb(p, fail) /\ UNCHANGED <<hist, sc, mu>>
    \/ \E p \in Procs : Acquire(p)
    \/ \E p \in Procs : CreatePut(p) /\ Release(p) /\ UNCHANGED <<hist, sc>>
    \/ \E p \in Procs : ReadGet(p) /\ Release(p) /\ UNCHANGED <<hist, sc>>
    \/ \E p \in Procs : ReadPut(p) /\ Release(p) /\ UNCHANGED <<hist, sc>>
    \/ \E p \in Procs : DeleteCache(p) /\ Release(p) /\ UNCHANGED <<hist, sc>>

IoSpec == IoInit /\ [][IoNext]_vars

\* ---- fair scheduling
\* a step of goroutine p that waits for nothing: the scheduler runs it
Runs(p) ==
    \/ First(p)
    \/ Rest(p)
    \/ Unlock(p)
    \/ StatsRead(p)
    \/ StatsUnlock(p)
    \/ CreatePut(p) /\ Release(p) /\ UNCHANGED <<hist, sc>>
    \/ ReadGet(p) /\ Release(p) /\ UNCHANGED <<hist, sc>>
    \/ ReadPut(p) /\ Release(p) /\ UNCHANGED <<hist, sc>>
    \/ DeleteCache(p) /\ Release(p) /\ UNCHANGED <<hist, sc>>

\* the store answers the call of goroutine p, with a result or an error
Answers(p) ==
    \E fail \in BOOLEAN :
        \/ CreateDb(p, fail) /\ UNCHANGED <<hist, sc, mu>>
        \/ ReadDb(p, fail) /\ UNCHANGED <<hist, sc, mu>>
        \/ DeleteDb(p, fail) /\ UNCHANGED <<hist, sc, mu>>

\* goroutine p gets the mutex it waits for
Locks(p) == Lock(p) \/ StatsLock(p) \/ Acquire(p)

\* a run of LiveCalls cache calls or requests
LiveNext == (LockNext \/ IoNext) /\ nreq' <= LiveCalls

\* a run of the cache calls or a run of the handlers; a runnable goroutine
\* runs, the store answers, and a goroutine waiting for a mutex that stays
\* free gets it
LiveSpec ==
    /\ LockInit \/ IoInit
    /\ [][LiveNext]_vars
    /\ \A p \in Procs : WF_vars(Runs(p)) /\ WF_vars(Answers(p)) /\ WF_vars(Locks(p))

\* =================================================================== claims
\* ---- helpers over the log of LRUSpec
\* the calls i..j of the log are Puts of pairwise distinct keys
DistinctPuts(i, j) ==
    /\ \A n \in i..j : hist[n].op = "Put"
    /\ \A m, n \in i..j : m # n => hist[m].key # hist[n].key

\* key is cached with value in the partition c (an LRUCache or an lruShard)
Holds(c, key, value) == Has(c, key) /\ Cached(c, key) = value

\* the shard that owns the keys of the log (they all hash to it)
HomeShard == ShardAt(sc, getShard(hist[1].key))

\* the partition holds at most its capacity, in the map and in the list
WithinCapacity(part) ==
    /\ Cardinality(DOMAIN part.cache) <= part.capacity
    /\ Len(part.lru) <= part.capacity

\* C1: a partition (an LRUCache, or one lruShard of a ShardedCache) built
\* with capacity C >= 1 holds at most C entries after every call of any
\* sequence of Put/Get/Delete: neither the map nor the list is ever larger
\* than C.
C1_CapacityInvariant ==
    /\ cache.capacity >= 1 => WithinCapacity(cache)
    /\ sc.shardCap >= 1
    /\ WithinCapacity(NewShard(sc.shardCap))
    /\ \A i \in DOMAIN sc.shards :
          sc.shards[i].capacity >= 1 /\ WithinCapacity(sc.shards[i])

\* C1 witness: the LRUCache and the shard are full after more Puts of
\* distinct keys than they hold
C1_Witness ==
    /\ cache.capacity >= 1
    /\ Len(hist) > cache.capacity
    /\ DistinctPuts(1, Len(hist))
    /\ Len(cache.lru) = cache.capacity
    /\ Len(HomeShard.lru) = HomeShard.capacity

\* after C+1 Puts of distinct keys the partition of capacity C lacks the
\* first key and holds the others with their values
EvictedFirst(part) ==
    LET C == part.capacity IN
    (C >= 1 /\ Len(hist) = C + 1 /\ DistinctPuts(1, C + 1)) =>
        /\ ~Has(part, hist[1].key)
        /\ \A i \in 2..(C + 1) : Holds(part, hist[i].key, hist[i].value)
        /\ DOMAIN part.cache = {hist[i].key : i \in 2..(C + 1)}

\* C5: on a partition of capacity C >= 1, after C+1 Puts of pairwise distinct
\* keys and no other call, the first key put is absent and the other C keys
\* are present with the values they were put with (LRUCache, and the shard
\* of a ShardedCache the keys hash to).
C5_LRUEviction ==
    /\ EvictedFirst(cache)
    /\ Len(hist) >= 1 => EvictedFirst(HomeShard)

\* C5 witness: capacity 2 and three Puts of distinct keys of one shard
C5_Witness ==
    /\ cache.capacity = 2
    /\ Len(hist) = 3
    /\ DistinctPuts(1, 3)
    /\ HomeShard.capacity = 2
    /\ \A i \in 1..3 : getShard(hist[i].key) = getShard(hist[1].key)

\* what the Get logged at position i returned: from the LRUCache, or from
\* the ShardedCache
GetResult(i, sharded) ==
    IF sharded THEN [value |-> hist[i].svalue, ok |-> hist[i].sok]
    ELSE [value |-> hist[i].value, ok |-> hist[i].ok]

\* C distinct Puts, Get of the first key, Put of a new key: the second key
\* is evicted, the others stay
RefreshedFirst(part, sharded) ==
    LET C == part.capacity IN
    (/\ C >= 2
     /\ Len(hist) = C + 2
     /\ DistinctPuts(1, C)
     /\ hist[C + 1].op = "Get" /\ hist[C + 1].key = hist[1].key
     /\ hist[C + 2].op = "Put"
     /\ \A i \in 1..C : hist[i].key # hist[C + 2].key) =>
        /\ GetResult(C + 1, sharded) = [value |-> hist[1].value, ok |-> TRUE]
        /\ ~Has(part, hist[2].key)
        /\ \A i \in (1..(C + 2)) \ {2, C + 1} : Holds(part, hist[i].key, hist[i].value)
        /\ DOMAIN part.cache = {hist[i].key : i \in (1..(C + 2)) \ {2, C + 1}}

\* C6: on a partition of capacity C >= 2 filled by Puts of distinct keys
\* key[0..C-1], Get(key[0]) followed by a Put of a new key evicts key[1] and
\* keeps key[0] and every other key with its value (capacity 2: put(a,1),
\* put(b,2), get(a), put(c,3) leaves exactly {a:1, c:3}).
C6_RecencyRefresh ==
    /\ RefreshedFirst(cache, FALSE)
    /\ Len(hist) >= 1 => RefreshedFirst(HomeShard, TRUE)

\* C6 witness: put(a,v1), put(ah,v2), get(a), put(ba,v1) on capacity 2
C6_Witness ==
    /\ cache.capacity = 2
    /\ Len(hist) = 4
    /\ HomeShard.capacity = 2
    /\ hist[1].op = "Put" /\ hist[1].key = "a" /\ hist[1].value = "v1"
    /\ hist[2].op = "Put" /\ hist[2].key = "ah" /\ hist[2].value = "v2"
    /\ hist[3].op = "Get" /\ hist[3].key = "a"
    /\ hist[4].op = "Put" /\ hist[4].key = "ba" /\ hist[4].value = "v1"
    /\ DOMAIN cache.cache = {"a", "ba"}
    /\ DOMAIN HomeShard.cache = {"a", "ba"}

\* ---- helpers over the requests
InFlight(k) == \E p \in Procs : pc[p] # "idle" /\ req[p].key = k
Hits(c) == GetStats(c)[1]
Misses(c) == GetStats(c)[2]
IsReq(h, op, k) == h.req.op = op /\ h.req.key = k

\* C2: under concurrent create/read/delete requests the cache stays
\* consistent with the store: whenever no request on key k is in flight and
\* the cache holds k, the store holds k with the same value.
C2_CacheCoherent ==
    \A k \in Keys : (~InFlight(k) /\ Has(cache, k)) => db[k] = Cached(cache, k)

\* C3: a create whose store write fails answers with an error and leaves the
\* cache (entries, recency order, counters) exactly as it found it; the
\* cache is written only once the store holds the pair.
C3_StoreFirst ==
    /\ \A i \in 1..Len(hist) :
          (hist[i].req.op = "create" /\ hist[i].done /\ hist[i].store # "ok") =>
              /\ hist[i].resp = sendError("database error", 500)
              /\ hist[i].cache1 = hist[i].cache0
    /\ \A p \in Procs :
          pc[p] \in {"create_db", "create_put"} => cache = hist[Len(hist)].cache0
    /\ \A p \in Procs :
          pc[p] = "create_put" => db[req[p].key] = req[p].value
    /\ \A i \in 1..Len(hist) :
          (hist[i].req.op = "create" /\ hist[i].cache1 # hist[i].cache0) =>
              /\ hist[i].store = "ok"
              /\ hist[i].db1[hist[i].req.key] = hist[i].req.value

\* C3 witness: a create that failed at the store while the cache held
\* another value for its key
C3_Witness ==
    \E i \in 1..Len(hist) :
        /\ hist[i].req.op = "create" /\ hist[i].done /\ hist[i].store = "fail"
        /\ Has(hist[i].cache0, hist[i].req.key)
        /\ Cached(hist[i].cache0, hist[i].req.key) # hist[i].req.value

\* C4: the cache is never ahead of the store: under every interleaving and
\* every store failure, each cached (k, v) is a pair the store has held, put
\* there by a store write that succeeded.
C4_NeverAhead ==
    \A k \in Keys : Has(cache, k) => <<k, Cached(cache, k)>> \in committed

\* C4 witness: a create failed at the store while another request was in
\* flight, and the cache holds its key
C4_Witness ==
    /\ sent.req.op = "create" /\ sent.store = "fail"
    /\ Has(cache, sent.req.key)
    /\ \E p \in Procs : pc[p] # "idle"

\* a read that ran alone, missed the cache and got the value from the store
ReadThrough(h) ==
    /\ h.req.op = "read" /\ h.done
    /\ ~Has(h.cache0, h.req.key)
    /\ h.db0[h.req.key] # NoRow
    /\ h.store # "fail"

\* C7: a read(k) run alone with k absent from the cache and the store
\* answering v returns v, adds exactly 1 to misses and leaves k cached with
\* v; the read(k) that follows it immediately returns v from the cache,
\* adding exactly 1 to hits and 0 to misses.
C7_ReadThrough ==
    \A i \in 1..Len(hist) :
        LET h == hist[i]
            k == h.req.key
            v == h.db0[k]
        IN  ReadThrough(h) =>
              /\ h.resp = sendSuccess(v, 200)
              /\ Misses(h.cache1) = Misses(h.cache0) + 1
              /\ Hits(h.cache1) = Hits(h.cache0)
              /\ Holds(h.cache1, k, v)
              /\ (i < Len(hist) /\ hist[i + 1].req = h.req /\ hist[i + 1].done) =>
                    /\ hist[i + 1].resp = sendSuccess(v, 200)
                    /\ hist[i + 1].store = "none"
                    /\ Hits(hist[i + 1].cache1) = Hits(h.cache1) + 1
                    /\ Misses(hist[i + 1].cache1) = Misses(h.cache1)

\* C7 witness: a read-through followed at once by a read of the same key
C7_Witness ==
    \E i \in 1..Len(hist) :
        /\ ReadThrough(hist[i])
        /\ i < Len(hist) /\ hist[i + 1].req = hist[i].req /\ hist[i + 1].done

\* create(k, v) succeeded, later delete(k) succeeded, later read(k) ran, and
\* no create of k reached the store between the delete and the read
CreateDeleteRead(i, j, l, k) ==
    /\ i < j /\ j < l
    /\ IsReq(hist[i], "create", k) /\ hist[i].done /\ hist[i].resp.success
    /\ IsReq(hist[j], "delete", k) /\ hist[j].done /\ hist[j].resp.success
    /\ IsReq(hist[l], "read", k) /\ hist[l].done
    /\ \A m \in (j + 1)..(l - 1) : ~(IsReq(hist[m], "create", k) /\ hist[m].store = "ok")

\* C8: after create(k, v) succeeded and then delete(k) succeeded, a later
\* read(k) misses the cache (misses + 1), finds no row in the store, answers
\* not-found and leaves k absent from the cache.
C8_DeleteInvalidates ==
    \A i, j, l \in 1..Len(hist) : \A k \in Keys :
        CreateDeleteRead(i, j, l, k) =>
            LET h == hist[l] IN
            /\ ~Has(h.cache0, k)
            /\ Misses(h.cache1) = Misses(h.cache0) + 1
            /\ Hits(h.cache1) = Hits(h.cache0)
            /\ h.db0[k] = NoRow /\ h.store \in {"absent", "fail"}
            /\ h.resp = sendError("key not found", 404)
            /\ ~Has(h.cache1, k)

\* C8 witness: create, delete, read of one key, the store answering "absent"
C8_Witness ==
    \E i, j, l \in 1..Len(hist) : \E k \in Keys :
        CreateDeleteRead(i, j, l, k) /\ hist[l].store = "absent"

\* C9: a read(k) or delete(k) to which the store reports k absent answers
\* not-found and leaves the entries and the recency order of the cache as
\* they were: the read's Get missed and moved nothing, the read does not
\* populate the cache, the delete does not remove a cached copy of k.
C9_NotFoundFrame ==
    [][\A p \in Procs :
          /\ (pc[p] = "read_get" /\ pc'[p] = "read_db") =>
                Contents(cache') = Contents(cache)
          /\ (pc[p] \in {"read_db", "delete_db"} /\ pc'[p] = "idle"
                /\ sent'.store = "absent") =>
                /\ sent'.resp = sendError("key not found", 404)
                /\ cache' = cache]_vars

\* C9 witness: the store reported k absent to a delete and the cache still
\* holds a copy of k
C9_Witness ==
    /\ sent.req.op = "delete" /\ sent.store = "absent"
    /\ sent.resp = sendError("key not found", 404)
    /\ Has(cache, sent.req.key)

\* C10: read and delete answer not-found exactly when the store reported the
\* key absent; a failed store call is answered as a distinct store failure,
\* never as not-found.
C10_ErrorsPropagate ==
    sent.req.op \in {"read", "delete"} =>
        /\ (sent.resp.status = 404 <=> sent.store = "absent")
        /\ (sent.store = "fail" => sent.resp.error # "key not found")

\* a read that ran alone and found its key in the cache
ReadHit(h) == h.req.op = "read" /\ h.done /\ Has(h.cache0, h.req.key)

\* C11: a read(k) that finds k in the cache returns the cached value, makes
\* no store call and adds exactly 1 to hits (0 to misses); a read(k) that
\* follows a successful create(k, v) with no request in between returns v
\* as such a cache hit.
C11_HitServesRead ==
    \A i \in 1..Len(hist) :
        LET h == hist[i] IN
        /\ ReadHit(h) =>
              /\ h.resp = sendSuccess(Cached(h.cache0, h.req.key), 200)
              /\ h.store = "none" /\ h.db1 = h.db0
              /\ Hits(h.cache1) = Hits(h.cache0) + 1
              /\ Misses(h.cache1) = Misses(h.cache0)
        /\ (/\ i > 1 /\ h.req.op = "read" /\ h.done
            /\ IsReq(hist[i - 1], "create", h.req.key)
            /\ hist[i - 1].resp.success) =>
              /\ ReadHit(h)
              /\ h.resp = sendSuccess(hist[i - 1].req.value, 200)

\* C11 witness: a successful create(k, v) that replaced another cached value
\* of k, followed at once by a read(k) served from the cache
C11_Witness ==
    \E i \in 2..Len(hist) :
        /\ ReadHit(hist[i]) /\ hist[i].store = "none"
        /\ IsReq(hist[i - 1], "create", hist[i].req.key)
        /\ hist[i - 1].resp.success
        /\ Has(hist[i - 1].cache0, hist[i].req.key)
        /\ Cached(hist[i - 1].cache0, hist[i].req.key) # hist[i - 1].req.value

\* the map and the list of the partition hold the same keys, each key once
\* in the list, and the map entry of a key is the list element carrying it
MapMatchesList(part) ==
    /\ {part.entry[part.lru[i]].key : i \in 1..Len(part.lru)} = DOMAIN part.cache
    /\ \A i, j \in 1..Len(part.lru) :
          i # j => /\ part.lru[i] # part.lru[j]
                   /\ part.entry[part.lru[i]].key # part.entry[part.lru[j]].key
    /\ \A k \in DOMAIN part.cache :
          /\ part.cache[k] \in Range(part.lru)
          /\ part.entry[part.cache[k]].key = k

\* C12: in every state reachable by any sequence of Get/Put/Delete on a
\* partition (an LRUCache of any capacity, every lruShard of a ShardedCache)
\* the keys of the map are the keys of the recency list, each key occurs in
\* the list exactly once, and the map entry of a key is the list element
\* that carries that key.
C12_MapListConsistent ==
    /\ MapMatchesList(cache)
    /\ MapMatchesList(NewShard(sc.shardCap))
    /\ \A i \in DOMAIN sc.shards : MapMatchesList(sc.shards[i])

\* C12 witness: capacity 2, three Puts of distinct keys (one eviction), then
\* a Delete of the key put last: one key is left, in the map and the list
C12_Witness ==
    /\ cache.capacity = 2
    /\ Len(hist) = 4
    /\ DistinctPuts(1, 3)
    /\ hist[4].op = "Delete" /\ hist[4].key = hist[3].key
    /\ DOMAIN cache.cache = {hist[2].key} /\ Len(cache.lru) = 1
    /\ DOMAIN HomeShard.cache = {hist[2].key} /\ Len(HomeShard.lru) = 1

\* ---- helpers over one call of LRUSpec: the step that logs it
\* the call made in this step
Call == hist'[Len(hist')]
\* this step is a call of op
Calls(op) == Len(hist') = Len(hist) + 1 /\ Call.op = op
\* the recency order of the keys other than k
OrderWithout(part, k) == SelectSeq(Order(part), LAMBDA x : x # k)
\* the keys other than k, their values and their relative order are the same
\* in part and part2
OthersKept(part, part2, k) ==
    /\ DOMAIN part2.cache \ {k} = DOMAIN part.cache \ {k}
    /\ \A x \in DOMAIN part.cache \ {k} : Cached(part2, x) = Cached(part, x)
    /\ OrderWithout(part2, k) = OrderWithout(part, k)
\* the shard of s that owns k
Home(s, k) == ShardAt(s, getShard(k))

\* Put(k, v) took part, which held k, to part2
Overwritten(part, part2, k, v) ==
    Has(part, k) =>
        /\ Holds(part2, k, v)
        /\ Order(part2)[1] = k
        /\ DOMAIN part2.cache = DOMAIN part.cache
        /\ Len(part2.lru) = Len(part.lru)
        /\ OthersKept(part, part2, k)

\* C13: Put(k, v) on a partition that holds k overwrites the value of k,
\* moves k to the most-recently-used position, evicts nothing even when the
\* partition is at capacity, and leaves the number of entries, the value of
\* every other key and the relative recency order of the other keys as
\* they were.
C13_PutOverwrites ==
    [][Calls("Put") =>
          /\ Overwritten(cache, cache', Call.key, Call.value)
          /\ Overwritten(Home(sc, Call.key), Home(sc', Call.key), Call.key, Call.value)]_vars

\* C13 witness: capacity 2, two distinct keys put, then the older key put
\* again with another value: it is first in the order, nothing was evicted
C13_Witness ==
    /\ cache.capacity = 2
    /\ Len(hist) = 3
    /\ DistinctPuts(1, 2)
    /\ hist[3].op = "Put" /\ hist[3].key = hist[1].key /\ hist[3].value # hist[1].value
    /\ Order(cache) = <<hist[1].key, hist[2].key>>
    /\ Order(HomeShard) = <<hist[1].key, hist[2].key>>
    /\ Holds(cache, hist[1].key, hist[3].value)

\* Get(k) took part to part2 and returned (value, ok)
GetEffect(part, part2, k, value, ok) ==
    IF Has(part, k)
    THEN /\ ok /\ value = Cached(part, k)
         /\ Order(part2)[1] = k
         /\ part2.hits = part.hits + 1 /\ part2.misses = part.misses
    ELSE /\ ~ok
         /\ part2.misses = part.misses + 1 /\ part2.hits = part.hits
         /\ Contents(part2) = Contents(part)

\* the counters are the same in part and part2
CountersKept(part, part2) == part2.hits = part.hits /\ part2.misses = part.misses

\* the number of Gets logged
NumGets == Cardinality({i \in 1..Len(hist) : hist[i].op = "Get"})

\* what a step does to the counters, by the call it makes
CounterStep ==
    /\ Calls("Get") =>
          /\ GetEffect(cache, cache', Call.key, Call.value, Call.ok)
          /\ GetEffect(Home(sc, Call.key), Home(sc', Call.key),
                       Call.key, Call.svalue, Call.sok)
    /\ (Calls("Put") \/ Calls("Delete")) =>
          /\ CountersKept(cache, cache')
          /\ CountersKept(Home(sc, Call.key), Home(sc', Call.key))
    /\ cache'.hits >= cache.hits /\ cache'.misses >= cache.misses
    /\ \A i \in DOMAIN sc'.shards :
          /\ sc'.shards[i].hits >= ShardAt(sc, i).hits
          /\ sc'.shards[i].misses >= ShardAt(sc, i).misses

\* C14: Get(k) on a present key returns (value, true), moves k to the
\* most-recently-used position and adds 1 to hits and 0 to misses; on an
\* absent key it returns found = false, adds 1 to misses and 0 to hits and
\* changes no entry and no order. Put and Delete leave both counters as
\* they were. In every state hits + misses is the number of completed Gets,
\* and no step decreases a counter.
C14_GetCounters ==
    /\ [](/\ cache.hits + cache.misses = NumGets
          /\ LET total == ShardedGetStats(sc) IN total[1] + total[2] = NumGets)
    /\ [][CounterStep]_vars

\* C14 witness: a Put, a Get that hit, a Get that missed and a Delete
C14_Witness ==
    /\ Len(hist) = 4
    /\ hist[1].op = "Put"
    /\ hist[2].op = "Get" /\ hist[2].ok /\ hist[2].sok
    /\ hist[3].op = "Get" /\ ~hist[3].ok /\ ~hist[3].sok
    /\ hist[4].op = "Delete"
    /\ GetStats(cache) = <<1, 1>>
    /\ ShardedGetStats(sc) = <<1, 1>>

\* Delete(k) took part to part2
Deleted(part, part2, k) ==
    /\ Has(part, k) =>
          /\ ~Has(part2, k)
          /\ \A i \in 1..Len(part2.lru) : Order(part2)[i] # k
          /\ Len(part2.lru) = Len(part.lru) - 1
    /\ ~Has(part, k) => part2 = part
    /\ OthersKept(part, part2, k)
    /\ CountersKept(part, part2)

\* C15: Delete(k) on a present key removes k from the map and from the
\* recency list; on an absent key it changes nothing; a second Delete(k)
\* leaves the state the first one left; in every case the other keys, their
\* values, their relative recency order and the counters are as they were.
C15_DeleteLocal ==
    [][Calls("Delete") =>
          /\ Deleted(cache, cache', Call.key)
          /\ Deleted(Home(sc, Call.key), Home(sc', Call.key), Call.key)
          /\ Delete(cache', Call.key) = cache'
          /\ ShardedDelete(sc', Call.key) = sc']_vars

\* C15 witness: capacity 2, two distinct keys put, the newer one deleted
\* twice: the older key is left
C15_Witness ==
    /\ cache.capacity = 2
    /\ Len(hist) = 4
    /\ DistinctPuts(1, 2)
    /\ hist[3].op = "Delete" /\ hist[3].key = hist[2].key
    /\ hist[4] = hist[3]
    /\ Order(cache) = <<hist[1].key>>
    /\ Order(HomeShard) = <<hist[1].key>>

\* Put(k, v) took part, which lacked k, to part2
Inserted(part, part2, k, v) ==
    LET C == part.capacity
        n == Len(part.lru)
    IN  (C >= 1 /\ ~Has(part, k)) =>
          /\ Holds(part2, k, v)
          /\ n = C =>
                /\ Order(part2) = <<k>> \o SubSeq(Order(part), 1, C - 1)
                /\ DOMAIN part2.cache = (DOMAIN part.cache \ {Order(part)[C]}) \cup {k}
                /\ Len(part2.lru) = C
          /\ n < C =>
                /\ Order(part2) = <<k>> \o Order(part)
                /\ DOMAIN part2.cache = DOMAIN part.cache \cup {k}
          /\ \A x \in (DOMAIN part2.cache) \ {k} : Cached(part2, x) = Cached(part, x)

\* C16: on a partition of capacity C >= 1, a Put of an absent key into a
\* partition holding exactly C entries removes exactly one entry, the one at
\* the least-recently-used end of the order, and inserts the new key at the
\* most-recently-used position, so the partition still holds C entries; a
\* Put of an absent key into a partition holding fewer than C entries
\* removes nothing.
C16_SingleVictim ==
    [][Calls("Put") =>
          /\ Inserted(cache, cache', Call.key, Call.value)
          /\ Inserted(Home(sc, Call.key), Home(sc', Call.key), Call.key, Call.value)]_vars

\* C16 witness: capacity 2, three distinct keys put and then the first one
\* again: two Puts found room, two evicted the oldest entry
C16_Witness ==
    /\ cache.capacity = 2
    /\ Len(hist) = 4
    /\ DistinctPuts(1, 3)
    /\ hist[4].op = "Put" /\ hist[4].key = hist[1].key
    /\ Order(cache) = <<hist[1].key, hist[3].key>>
    /\ Order(HomeShard) = <<hist[1].key, hist[3].key>>

\* ceil(totalCapacity / SHARD_COUNT), at least 1
CeilShare(totalCapacity) ==
    LET share == (totalCapacity + SHARD_COUNT - 1) \div SHARD_COUNT
    IN  IF share < 1 THEN 1 ELSE share

\* C17: NewShardedCache(totalCapacity) gives every one of the SHARD_COUNT
\* shards the capacity ceil(totalCapacity / SHARD_COUNT), at least 1, for
\* every totalCapacity (cache.capacity is the total the ShardedCache was
\* built with).
C17_PartitionSizing ==
    \A i \in 0..(SHARD_COUNT - 1) :
        ShardAt(sc, i).capacity = CeilShare(cache.capacity)

\* what a Put does to a cache built with capacity 0
ZeroCapacityPut ==
    (cache.capacity = 0 /\ Calls("Put")) =>
        /\ Holds(cache', Call.key, Call.value)
        /\ DOMAIN cache'.cache = {Call.key}
        /\ Len(cache'.lru) = 1

\* C18: an LRUCache constructed with capacity 0 behaves as a partition of
\* capacity 1: after every Put the key put is present with its value and
\* the cache holds exactly 1 entry; it never holds more than 1, and under
\* the same calls it holds what a shard of capacity 1 holds, with the same
\* counters.
C18_ZeroCapacity ==
    /\ [](cache.capacity = 0 =>
            /\ Len(cache.lru) <= 1 /\ Cardinality(DOMAIN cache.cache) <= 1
            /\ Len(hist) >= 1 =>
                  /\ HomeShard.capacity = 1
                  /\ Contents(cache) = Contents(HomeShard)
                  /\ GetStats(cache) = <<HomeShard.hits, HomeShard.misses>>)
    /\ [][ZeroCapacityPut]_vars

\* C18 witness: capacity 0, two distinct keys put one after the other: the
\* second one alone is cached
C18_Witness ==
    /\ cache.capacity = 0
    /\ Len(hist) = 2
    /\ DistinctPuts(1, 2)
    /\ Order(cache) = <<hist[2].key>>
    /\ Holds(cache, hist[2].key, hist[2].value)

\* every key a shard holds is a key getShard sends to that shard
KeysAtHome ==
    \A i \in DOMAIN sc.shards :
        /\ i \in 0..(SHARD_COUNT - 1)
        /\ \A k \in DOMAIN sc.shards[i].cache : getShard(k) = i

\* getShard is the low bits of hash(key), the same at every call, and an
\* index of the shards array
PureRouting ==
    \A k \in ShardKeys :
        /\ getShard(k) = AndBits(hash(k), SHARD_COUNT - 1, 8)
        /\ getShard(k) \in 0..(SHARD_COUNT - 1)

\* a call on key k leaves every shard but the one that owns k as it was
OtherShardsKept ==
    Len(hist') = Len(hist) + 1 =>
        /\ sc'.shardCap = sc.shardCap
        /\ \A i \in (DOMAIN sc.shards \cup DOMAIN sc'.shards) \ {getShard(Call.key)} :
              ShardAt(sc', i) = ShardAt(sc, i)

\* C19: shard resolution is a pure function of the key with values in
\* 0..SHARD_COUNT-1; in every state reachable by ShardedCache Get/Put/Delete
\* a key is stored in no shard but the one getShard(key) returns; and a call
\* on key k changes the entries, order and counters of no other shard.
C19_SingleHome ==
    /\ [](PureRouting /\ KeysAtHome)
    /\ [][OtherShardsKept]_vars

\* C19 witness: keys of two different shards are cached, each in its own
\* shard, and a third call was made on one of them
C19_Witness ==
    /\ Len(hist) = 3
    /\ \E k1, k2 \in ShardKeys :
          /\ getShard(k1) # getShard(k2)
          /\ Has(Home(sc, k1), k1) /\ Has(Home(sc, k2), k2)
          /\ Home(sc, k1).hits = 1 /\ Home(sc, k2).hits = 0

\* ---- helpers over the calls of LockSpec
\* goroutine p is inside the critical section of a Get, Put or Delete
Inside(p) == pc[p] \in {"cs1", "cs2", "unlock"}
\* goroutine p is inside GetStats, between its lock and its unlock
Reading(p) == pc[p] \in {"stats_read", "stats_unlock"}

\* what the call r, run as one step, makes of the partition it found
Applied(r) ==
    IF r.on = "lru"
    THEN CASE r.op = "Get" -> Get(r.at, r.key).c
           [] r.op = "Put" -> Put(r.at, r.key, r.value)
           [] r.op = "Delete" -> Delete(r.at, r.key)
    ELSE LET s == WithShard(sc, getShard(r.key), r.at)
         IN  CASE r.op = "Get" -> Home(ShardedGet(s, r.key).sc, r.key)
               [] r.op = "Put" -> Home(ShardedPut(s, r.key, r.value), r.key)
               [] r.op = "Delete" -> Home(ShardedDelete(s, r.key), r.key)

\* no two goroutines are inside critical sections of one partition
MutualExclusion ==
    \A p, q \in Procs :
        (p # q /\ Inside(p) /\ Inside(q)) => MuOf(req[p]) # MuOf(req[q])

\* inside its critical section a call sees the partition change by its own
\* statements alone, and leaves what the call run as one step would leave
OneStep ==
    \A p \in Procs :
        /\ pc[p] = "cs1" => PartOf(req[p]) = req[p].at
        /\ pc[p] = "cs2" => PartOf(req[p]) = FirstHalf(req[p], req[p].at)
        /\ pc[p] = "unlock" => PartOf(req[p]) = Applied(req[p])

\* while GetStats reads a partition no Get, Put or Delete is inside it
StatsQuiescent ==
    \A p, q \in Procs :
        (Reading(p) /\ Inside(q)) => MuOf(req[p]) # MuOf(req[q])

\* C20: with concurrent callers, at most one Get, Put or Delete is inside
\* the critical section of a partition (the LRUCache, a shard) at any time;
\* the lookup and the mutations of a call are one atomic step with respect
\* to the other calls on that partition; and GetStats never reads a
\* partition while a call is in the middle of its critical section.
C20_MutualExclusion == MutualExclusion /\ OneStep /\ StatsQuiescent

\* C20 witness: a Put is half way through its critical section (the old
\* entry evicted, the new one not yet linked) while another call waits for
\* the lock of the same partition
C20_Witness ==
    \E p, q \in Procs :
        /\ pc[p] = "cs2" /\ req[p].op = "Put"
        /\ pc[q] \in {"lock", "stats_lock"}
        /\ MuOf(req[q]) = MuOf(req[p])
        /\ PartOf(req[p]) # req[p].at
        /\ PartOf(req[p]) # Applied(req[p])

\* a step in which goroutine p leaves a cache call: it holds no mutex after
LeavesUnlocked ==
    \A p \in Procs :
        (pc[p] \in CacheCallPcs /\ pc'[p] # pc[p]) =>
            /\ HoldsMu(p)
            /\ ~\E h \in mu' : h.by = p

\* C21: a handler whose store call (Create, Read, Delete) is outstanding
\* holds no cache lock, and neither does an idle goroutine; a cache lock is
\* taken inside a cache call and released as that call returns.
C21_NoLockAcrossStore ==
    /\ [](\A p \in Procs : HoldsMu(p) => pc[p] \in CacheCallPcs)
    /\ [][LeavesUnlocked]_vars

\* C21 witness: one handler waits for the store while another is inside a
\* cache call with the lock held
C21_Witness ==
    \E p, q \in Procs :
        /\ pc[p] \in StoreCallPcs /\ ~HoldsMu(p)
        /\ pc[q] \in CacheCallPcs /\ HoldsMu(q)

\* the locks goroutine p holds
HeldBy(p) == {h \in mu : h.by = p}

\* C22: no goroutine ever holds more than one partition lock (GetStats of a
\* ShardedCache takes and releases the shard locks one after the other); a
\* goroutine that has returned from its call or request holds none; and
\* under fair scheduling, with a store that answers every call, every
\* started Get, Put, Delete, GetStats and every create, read, delete
\* request completes.
C22_Progress ==
    /\ [](\A p \in Procs :
            /\ Cardinality(HeldBy(p)) <= 1
            /\ pc[p] = "idle" => HeldBy(p) = {})
    /\ \A p \in Procs : (pc[p] # "idle") ~> (pc[p] = "idle")

\* C22 witness: GetStats has come to the shard of the keys and holds its
\* lock, having released the locks of the shards before it, while a Put
\* waits for that lock
C22_Witness ==
    \E p, q \in Procs :
        /\ pc[p] = "stats_read" /\ req[p].on = "sc" /\ req[p].i = getShard("a")
        /\ HeldBy(p) = {[lock |-> ShardMu(req[p].i), by |-> p, mode |-> "w"]}
        /\ pc[q] = "lock" /\ req[q].op = "Put" /\ MuOf(req[q]) = ShardMu(req[p].i)


\* ---- helpers over the log of TraceSpec
\* the log entry i is the event ev of a request op on key k
IsEvent(i, ev, op, k) ==
    hist[i].ev = ev /\ hist[i].req.op = op /\ hist[i].req.key = k

\* the arrival of the request whose response is the log entry j
StartOf(j) ==
    CHOOSE d \in 1..(j - 1) :
        /\ hist[d].ev = "start" /\ hist[d].by = hist[j].by
        /\ \A x \in (d + 1)..(j - 1) : hist[x].by # hist[j].by

\* the request that arrived at entry i has answered before entry d
EndedBefore(i, d) ==
    \E e \in (i + 1)..(d - 1) : hist[e].ev = "end" /\ hist[e].by = hist[i].by

\* delete(k) has answered success at entry j, every create(k) of the run had
\* answered before that delete arrived, and no request is in flight
DeletedForGood(j, k) ==
    /\ IsEvent(j, "end", "delete", k) /\ hist[j].ok
    /\ \A i \in 1..Len(hist) :
          IsEvent(i, "start", "create", k) => EndedBefore(i, StartOf(j))
    /\ \A p \in Procs : pc[p] = "idle"

\* C23: once delete(k) has answered success, with no create(k) in flight
\* during it or arriving after it, and every request that was in flight has
\* answered, the cache does not hold k (a later read(k) would be served
\* from it).
C23_NoResurrection ==
    \A k \in Keys : \A j \in 1..Len(hist) :
        DeletedForGood(j, k) => ~Has(cache, k)

\* every entry of cache c is the row the store d holds for its key
Mirrors(c, d) == \A k \in Keys : Has(c, k) => d[k] = Cached(c, k)

\* C24: when the requests run one at a time and a failing store call leaves
\* the store unchanged, after every request each cached (k, v) is the
\* store's row for k, and every read(k) answers the value the store holds
\* for k, or not-found exactly when the store holds no row for k.
C24_SequentialCoherence ==
    \A i \in 1..Len(hist) :
        LET h == hist[i]
            k == h.req.key
        IN  h.done =>
              /\ Mirrors(h.cache1, h.db1)
              /\ h.req.op = "read" =>
                    IF h.db1[k] = NoRow
                    THEN h.resp = sendError("key not found", 404)
                    ELSE h.resp = sendSuccess(h.db1[k], 200)

\* Put(k, v) took part to part2 and did not turn the entry away
Accepted(part, part2, k, v) ==
    part.capacity >= 1 =>
        /\ Has(part2, k) /\ Order(part2)[1] = k
        /\ LET r == Get(part2, k) IN r.ok /\ r.value = v
        /\ (Len(part.lru) >= part.capacity /\ ~Has(part, k)) =>
              \E x \in DOMAIN part.cache :
                  /\ x # k
                  /\ DOMAIN part2.cache = (DOMAIN part.cache \ {x}) \cup {k}

\* C25: on every partition of capacity >= 1, in every state and for every
\* (k, v), right after Put(k, v) the key k is present at the
\* most-recently-used position and Get(k) returns (v, true); a full
\* partition makes room by evicting another key, never by dropping the new
\* entry. It holds of the LRUCache and of the shard of a ShardedCache.
C25_PutNeverRejects ==
    [][Calls("Put") =>
          /\ Accepted(cache, cache', Call.key, Call.value)
          /\ Accepted(Home(sc, Call.key), Home(sc', Call.key), Call.key, Call.value)
          /\ LET sr == ShardedGet(sc', Call.key)
             IN  sr.ok /\ sr.value = Call.value]_vars

\* C25 witness: capacity 2, three distinct keys put, the third into the full
\* cache, and the Get of the third key that follows returns its value
C25_Witness ==
    /\ cache.capacity = 2
    /\ Len(hist) = 4
    /\ DistinctPuts(1, 3)
    /\ hist[4].op = "Get" /\ hist[4].key = hist[3].key
    /\ hist[4].ok /\ hist[4].value = hist[3].value
    /\ hist[4].sok /\ hist[4].svalue = hist[3].value
    /\ Order(cache) = <<hist[3].key, hist[2].key>>
    /\ Order(HomeShard) = <<hist[3].key, hist[2].key>>
====
